---- MODULE Spec2Model ----
(***************************************************************************)
(* Model of the mic-match web tier: the POST /api/match relay route        *)
(* (src/app/api/match/route.ts), the HomePage.handleAnalyze consumer       *)
(* (src/app/page.tsx) and the useMatchStream hook                          *)
(* (src/app/hooks/useMatchStream.ts).                                      *)
(*                                                                         *)
(* JSON objects are functions whose DOMAIN is the set of keys that are     *)
(* present: a key whose value is `undefined` is dropped by JSON.stringify, *)
(* so it is simply not in the domain.  A byte stream is a sequence of      *)
(* symbols: the newline, and the two halves of the text of one             *)
(* `data: <json>` line, so that a chunk boundary can fall inside a line.   *)
(***************************************************************************)
EXTENDS Integers, Sequences, FiniteSets, TLC

\* ------------------------------------------------------------------ bounds
\* number of event lines the backend writes on one /process response
MaxLines == 2

VARIABLES
    body,            \* route: the POST body, as received
    routePc,         \* route: "start" | "fetching" | "reading" | "done"
    httpStatus,      \* route: status of the HTTP answer, 0 while none
    httpError,       \* route: `error` text of a JSON answer, "" if none
    backendCalls,    \* route: number of fetch(`${backendUrl}/process`) issued
    backendState,    \* backend response: "idle" | "streaming" | "closed" | "failed"
    sent,            \* backend: the events written so far on the response
    wire,            \* backend bytes written and not yet read by the route
    buffer,          \* route: `buffer`, the incomplete last line
    clientQueue,     \* route: events enqueued on the client stream, in order
    clientClosed,    \* route: controller.close() has succeeded
    clientCancelled, \* the client cancelled / disconnected from the stream
    srvState,        \* browser side: the /api/match response stream,
                     \*   "idle" | "streaming" | "closed" | "failed" | "cancelled"
    srvEmitted,      \* browser side: number of events written on that stream
    srvWire,         \* browser side: bytes received and not yet read
    youtubeUrl,      \* HomePage: the text of the URL input
    urlError,        \* HomePage: urlError state
    processingStage, \* HomePage: processingStage state
    result,          \* HomePage: result state, << >> for null
    pageError,       \* HomePage: error state
    pagePc,          \* handleAnalyze: "idle" | "fetching" | "reading" | "done"
    pageBuffer,      \* handleAnalyze: `buffer`
    hookUrl,         \* startMatch: its youtubeUrl argument
    currentUpdate,   \* useMatchStream: currentUpdate state, << >> for null
    isStreaming,     \* useMatchStream: isStreaming state
    hookError,       \* useMatchStream: error state
    hookPc,          \* startMatch: "idle" | "fetching" | "reading" | "done"
    hookBuffer,      \* startMatch: `buffer`
    songsFile,       \* GET /api/songs: studio_songs.json on disk
    songsAnswer,     \* GET /api/songs: the last answer, << >> while none
    gaps,            \* classifier: the gaps of the results ranked, in hundredths
    tiers,           \* classifier: their confidence tiers, << >> while none
    delivered,       \* the complete events the route builds for them
    conc,            \* concurrent POSTs: per request, its private state
    urlCheck,        \* isValidYouTubeUrl: the URL checked and the answer, << >> while none
    textScore,       \* text similarity: two word sets and their similarity
    fused,           \* score fusion: channel similarities and the scores from them
    ranking,         \* ranking: a scored library and its match result
    runs,            \* useMatchStream: per startMatch call, its locals and its response
    songs,           \* useSongs: songs state
    loading,         \* useSongs: loading state
    songsError,      \* useSongs: error state
    fetches          \* useSongs: per fetchSongs call, where it is

routeVars == <<body, routePc, httpStatus, httpError, backendCalls, backendState,
               sent, wire, buffer, clientQueue, clientClosed, clientCancelled>>
srvVars == <<srvState, srvEmitted, srvWire>>
pageVars == <<youtubeUrl, urlError, processingStage, result, pageError, pagePc,
              pageBuffer>>
hookVars == <<hookUrl, currentUpdate, isStreaming, hookError, hookPc, hookBuffer>>

songsVars == <<songsFile, songsAnswer>>
rankVars == <<gaps, tiers, delivered>>
scoreVars == <<urlCheck, textScore, fused, ranking>>
callVars == <<runs, songs, loading, songsError, fetches>>
restVars == <<songsVars, rankVars, conc, scoreVars, callVars>>

vars == <<routeVars, srvVars, pageVars, hookVars, restVars>>

\* null, for a state that holds a text
Null == "null"

\* ------------------------------------------------------------ JSON helpers
Has(d, k) == k \in DOMAIN d

\* the one-key object {k: v}
Field(k, v) == k :> v

\* the key `k` copied from `d[src]`, dropped when d[src] is undefined
Copy(k, d, src) == IF Has(d, src) THEN k :> d[src] ELSE <<>>

\* JavaScript truthiness of an optional string / number property
TruthyText(d, k) == Has(d, k) /\ d[k] # ""
TruthyNum(d, k) == Has(d, k) /\ d[k] # 0

\* ------------------------------------------------------- URL validation
\* A URL string is its syntactic parts: scheme ("" when the text has none),
\* host labels as typed, path segments (a trailing "" is a trailing slash)
\* and the `v` query parameter ("absent", or its value, possibly "").
Url(scheme, host, path, v) ==
    [scheme |-> scheme, host |-> host, path |-> path, v |-> v]

\* String.prototype.toLowerCase on one host label
ToLowerCase(l) == IF l = "YouTube" THEN "youtube" ELSE l

\* new URL(url): throws on a text without a scheme or without a host
UrlParses(u) == u.scheme # "" /\ u.host # <<>>

\* urlObj.hostname.toLowerCase(), as its labels
Hostname(u) == [i \in 1..Len(u.host) |-> ToLowerCase(u.host[i])]

validDomains ==
    { <<"youtube", "com">>, <<"www", "youtube", "com">>,
      <<"m", "youtube", "com">>, <<"youtu", "be">> }

\* hostname === domain || hostname.endsWith('.' + domain)
HostMatches(h, d) ==
    /\ Len(h) >= Len(d)
    /\ SubSeq(h, Len(h) - Len(d) + 1, Len(h)) = d

\* hostname.includes('youtu.be'), on the labels of the model
IncludesYoutuBe(h) ==
    \E i \in 1..(Len(h) - 1) : h[i] = "youtu" /\ h[i + 1] = "be"

\* urlObj.pathname.length > 1: the path is more than "/"
PathLongerThanSlash(u) == u.path # <<>> /\ u.path # <<"">>

\* urlObj.pathname.includes('/embed/')
isEmbedPath(u) == \E i \in 1..(Len(u.path) - 1) : u.path[i] = "embed"

\* urlObj.pathname.includes('/watch')
isWatchPath(u) == \E i \in 1..Len(u.path) : u.path[i] = "watch"

\* urlObj.searchParams.has('v')
hasVideoParam(u) == u.v # "absent"

isValidYouTubeUrl(u) ==
    IF ~UrlParses(u) THEN FALSE
    ELSE IF ~(\E d \in validDomains : HostMatches(Hostname(u), d)) THEN FALSE
    ELSE IF IncludesYoutuBe(Hostname(u)) THEN PathLongerThanSlash(u)
    ELSE hasVideoParam(u) \/ isEmbedPath(u) \/ isWatchPath(u)

\* the URL texts a request may carry
Urls ==
    { Url("https://", <<"www", "youtube", "com">>, <<"watch">>, "ID"),
      Url("https://", <<"youtu", "be">>, <<"ID">>, "absent"),
      Url("https://", <<"youtu", "be">>, <<>>, "absent"),
      Url("https://", <<"YouTube", "com">>, <<"embed", "ID">>, "absent"),
      Url("https://", <<"www", "youtube", "com">>, <<"shorts", "ID">>, "absent"),
      Url("https://", <<"evil", "com">>, <<"watch">>, "ID"),
      Url("", <<"youtube", "com">>, <<"watch">>, "ID") }

\* the empty string ''
EmptyText == Url("", <<>>, <<>>, "absent")

\* the POST bodies: one on which request.json() or the read of youtubeUrl
\* throws (not JSON, or the JSON value null), an object without youtubeUrl,
\* with an empty one, or with a URL text
Bodies ==
    { [json |-> FALSE], [json |-> TRUE] }
    \cup { [json |-> TRUE, youtubeUrl |-> u] : u \in Urls \cup {EmptyText} }

\* !body.youtubeUrl
UrlMissing(b) == ~Has(b, "youtubeUrl") \/ b.youtubeUrl = EmptyText

\* ---------------------------------------------------------- backend events
\* Events as the backend README documents them (numbers in hundredths).
StageProgress == {25, 50, 75, 90}

StageMessage(p) ==
    CASE p = 25 -> "Download failed"
      [] p = 50 -> "Feature extraction failed"
      [] p = 75 -> "Transcription failed"
      [] OTHER  -> "Matching failed"

BackendProgress ==
    { [status |-> "downloading", message |-> "Downloading audio...", progress |-> 0],
      [status |-> "transcribing", message |-> "Transcribing lyrics...", progress |-> 50] }

\* the error event of a stage failure reported at progress p
StageError(p) == [status |-> "error", message |-> StageMessage(p), progress |-> p]

BackendError == { StageError(p) : p \in StageProgress }

Top5 == << [artist |-> "Oasis", title |-> "Wonderwall", combinedScore |-> 87],
           [artist |-> "Blur", title |-> "Song 2", combinedScore |-> 62] >>

\* the complete event in the layout the route reads (match object and
\* *_similarity keys at top level), with the ranking fields of the result
CompleteFlat ==
    [status |-> "complete", progress |-> 100,
     match |-> [artist |-> "Oasis", title |-> "Wonderwall", genre |-> "Unknown"],
     confidence |-> "HIGH", audio_similarity |-> 95, lyrics_similarity |-> 87,
     combinedScore |-> 87, gap |-> 25, top5 |-> Top5]

\* the complete event in the layout of backend/README.md "Final Result"
CompleteNested ==
    [status |-> "complete", message |-> "Processing complete", progress |-> 100,
     result |-> [match |-> "Oasis - Wonderwall", confidence |-> "HIGH",
                 combinedScore |-> 87, audioSim |-> 75, lyricsSim |-> 92,
                 gap |-> 25, top5 |-> Top5]]

\* a result whose gap is below 0.05
CompleteVeryLow ==
    [CompleteFlat EXCEPT !.confidence = "VERY_LOW", !.gap = 3,
                         !.audio_similarity = 41, !.lyrics_similarity = 38]

\* a result whose gap is in the LOW band
CompleteLow ==
    [CompleteFlat EXCEPT !.confidence = "LOW", !.gap = 7,
                         !.audio_similarity = 58, !.lyrics_similarity = 49]

\* a line that is JSON but none of the documented events: a status outside
\* the four stages and no progress
BackendOther == { [status |-> "queued", message |-> "Waiting for a worker"] }

BackendEvents ==
    BackendProgress \cup BackendError \cup BackendOther
    \cup {CompleteFlat, CompleteNested, CompleteLow, CompleteVeryLow}

\* ---------------------------------------------------------------- the wire
NL == [k |-> "nl"]
DataHead(e) == [k |-> "head", ev |-> e]   \* `data: ` and the first part of the JSON
DataTail(e) == [k |-> "tail", ev |-> e]   \* the rest of the JSON text

\* `data: ${JSON.stringify(e)}\n\n`
SseText(e) == << DataHead(e), DataTail(e), NL, NL >>

\* text.split('\n'): the pieces between newlines, the last one included
RECURSIVE SplitFrom(_, _, _)
SplitFrom(text, i, cur) ==
    IF i > Len(text) THEN << cur >>
    ELSE IF text[i] = NL THEN << cur >> \o SplitFrom(text, i + 1, << >>)
    ELSE SplitFrom(text, i + 1, Append(cur, text[i]))

Split(text) == SplitFrom(text, 1, << >>)

\* trimmedLine.startsWith('data: ')
StartsWithData(line) == Len(line) > 0 /\ line[1].k = "head"

\* JSON.parse(trimmedLine.substring(6)) succeeds
JsonParses(line) ==
    /\ Len(line) = 2
    /\ line[1].k = "head" /\ line[2].k = "tail"
    /\ line[1].ev = line[2].ev

JsonParse(line) == line[1].ev

\* --------------------------------------------------- route: the transform
\* data.match.artist on an event without `match` throws a TypeError
TransformThrows(data) == data.status = "complete" /\ ~Has(data, "match")

\* Transform whose complete event leaves the confidence out
Transform_ConfidenceLost(data) ==
    IF data.status = "complete" THEN
        Field("status", "complete") @@ Field("progress", 100)
        @@ Field("match", Copy("artist", data.match, "artist")
                          @@ Copy("title", data.match, "title")
                          @@ Copy("genre", data.match, "genre"))
        @@ Copy("audioSim", data, "audio_similarity")
        @@ Copy("lyricsSim", data, "lyrics_similarity")
    ELSE IF data.status = "error" THEN
        Field("status", "error")
        @@ Field("progress", IF TruthyNum(data, "progress") THEN data.progress ELSE 0)
        @@ Field("error", IF TruthyText(data, "error") THEN data.error
                          ELSE IF TruthyText(data, "message") THEN data.message
                          ELSE "Unknown error")
    ELSE
        Copy("status", data, "status") @@ Copy("progress", data, "progress")
        @@ Copy("message", data, "message")

\* Transform with the progress of an error event reset to 0
Transform_ErrorProgressReset(data) ==
    IF data.status = "complete" THEN
        Field("status", "complete") @@ Field("progress", 100)
        @@ Field("match", Copy("artist", data.match, "artist")
                          @@ Copy("title", data.match, "title")
                          @@ Copy("genre", data.match, "genre"))
        @@ Copy("confidence", data, "confidence")
        @@ Copy("audioSim", data, "audio_similarity")
        @@ Copy("lyricsSim", data, "lyrics_similarity")
    ELSE IF data.status = "error" THEN
        Field("status", "error") @@ Field("progress", 0)
        @@ Field("error", IF TruthyText(data, "error") THEN data.error
                          ELSE IF TruthyText(data, "message") THEN data.message
                          ELSE "Unknown error")
    ELSE
        Copy("status", data, "status") @@ Copy("progress", data, "progress")
        @@ Copy("message", data, "message")

\* the `update` built from one parsed backend event, as JSON.stringify
\* writes it
Transform(data) ==
    IF data.status = "complete" THEN
        Field("status", "complete") @@ Field("progress", 100)
        @@ Field("match", Copy("artist", data.match, "artist")
                          @@ Copy("title", data.match, "title")
                          @@ Copy("genre", data.match, "genre"))
        @@ Copy("confidence", data, "confidence")
        @@ Copy("audioSim", data, "audio_similarity")
        @@ Copy("lyricsSim", data, "lyrics_similarity")
    ELSE IF data.status = "error" THEN
        Field("status", "error")
        @@ Field("progress", IF TruthyNum(data, "progress") THEN data.progress ELSE 0)
        @@ Field("error", IF TruthyText(data, "error") THEN data.error
                          ELSE IF TruthyText(data, "message") THEN data.message
                          ELSE "Unknown error")
    ELSE
        Copy("status", data, "status") @@ Copy("progress", data, "progress")
        @@ Copy("message", data, "message")

\* the error event the route builds itself
ErrorUpdate(text) == [status |-> "error", progress |-> 0, error |-> text]

\* controller.enqueue: throws a TypeError once the stream was cancelled
CanEnqueue == ~clientCancelled /\ ~clientClosed

\* ForwardLines whose loop ends at the first line that is not an event
RECURSIVE ForwardLines_StopAtBadLine(_, _)
ForwardLines_StopAtBadLine(lines, i) ==
    IF i > Len(lines) THEN << >>
    ELSE IF lines[i] = << >> THEN ForwardLines_StopAtBadLine(lines, i + 1)
    ELSE IF ~StartsWithData(lines[i]) THEN << >>
    ELSE IF ~JsonParses(lines[i]) THEN << >>
    ELSE IF TransformThrows(JsonParse(lines[i])) THEN ForwardLines_StopAtBadLine(lines, i + 1)
    ELSE IF ~CanEnqueue THEN ForwardLines_StopAtBadLine(lines, i + 1)
    ELSE << Transform(JsonParse(lines[i])) >> \o ForwardLines_StopAtBadLine(lines, i + 1)

\* the for-loop over the complete lines of one chunk: what is enqueued
RECURSIVE ForwardLines(_, _)
ForwardLines(lines, i) ==
    IF i > Len(lines) THEN << >>
    ELSE IF ~StartsWithData(lines[i]) THEN ForwardLines(lines, i + 1)
    ELSE IF ~JsonParses(lines[i]) THEN ForwardLines(lines, i + 1)
    ELSE IF TransformThrows(JsonParse(lines[i])) THEN ForwardLines(lines, i + 1)
    ELSE IF ~CanEnqueue THEN ForwardLines(lines, i + 1)
    ELSE << Transform(JsonParse(lines[i])) >> \o ForwardLines(lines, i + 1)

\* error.message of the failures the route catches
FetchFailedText == "fetch failed"
ReadFailedText == "terminated"

\* ------------------------------------------------------------ route steps
backendVars == <<backendState, sent, wire>>
streamVars == <<clientQueue, clientClosed>>
browserVars == <<srvVars, pageVars, hookVars, restVars>>

\* CatchBlock that enqueues the error event and leaves the stream open
CatchBlock_NoClose(text) ==
    IF CanEnqueue
    THEN /\ clientQueue' = Append(clientQueue, ErrorUpdate(text))
         /\ UNCHANGED clientClosed
    ELSE UNCHANGED streamVars

\* the catch block of start(): one error event, then close; both throw once
\* the stream was cancelled, and then nothing is enqueued
CatchBlock(text) ==
    IF CanEnqueue
    THEN /\ clientQueue' = Append(clientQueue, ErrorUpdate(text))
         /\ clientClosed' = TRUE
    ELSE UNCHANGED streamVars

\* a client sends POST /api/match
ClientPosts(b) ==
    /\ routePc = "idle"
    /\ body' = b
    /\ routePc' = "start"
    /\ UNCHANGED <<browserVars, httpStatus, httpError, backendCalls, backendVars,
                   buffer, streamVars, clientCancelled>>

\* PostAnswer without the isValidYouTubeUrl check
PostAnswer_NoFormatCheck(b) ==
    IF ~b.json THEN [status |-> 500, error |-> "Failed to process request"]
    ELSE IF UrlMissing(b) THEN [status |-> 400, error |-> "YouTube URL is required"]
    ELSE [status |-> 200, error |-> ""]

\* what POST answers to a body: the status and, for a JSON answer, its
\* `error` text; 200 is the streaming answer
PostAnswer(b) ==
    IF ~b.json THEN [status |-> 500, error |-> "Failed to process request"]
    ELSE IF UrlMissing(b) THEN [status |-> 400, error |-> "YouTube URL is required"]
    ELSE IF ~isValidYouTubeUrl(b.youtubeUrl)
         THEN [status |-> 400, error |-> "Invalid YouTube URL format"]
    ELSE [status |-> 200, error |-> ""]

\* POST up to the return of the response: body parsing, validation, and the
\* start of the stream, whose start() issues the backend fetch
PostRequest ==
    /\ routePc = "start"
    /\ httpStatus' = PostAnswer(body).status
    /\ httpError' = PostAnswer(body).error
    /\ IF PostAnswer(body).status = 200
       THEN /\ routePc' = "fetching"
            /\ backendCalls' = backendCalls + 1
       ELSE /\ routePc' = "done"
            /\ UNCHANGED backendCalls
    /\ UNCHANGED <<browserVars, body, backendVars, buffer, streamVars, clientCancelled>>

\* FetchSettles that issues the backend request again after a rejected fetch
FetchSettles_Retry(outcome) ==
    /\ routePc = "fetching"
    /\ CASE outcome = "ok" ->
              /\ routePc' = "reading"
              /\ backendState' = "streaming"
              /\ UNCHANGED <<streamVars, backendCalls>>
         [] outcome = "non2xx" ->
              /\ routePc' = "done"
              /\ backendState' = "closed"
              /\ CatchBlock("Backend error: 500 - Internal Server Error")
              /\ UNCHANGED backendCalls
         [] outcome = "nobody" ->
              /\ routePc' = "done"
              /\ backendState' = "closed"
              /\ CatchBlock("No response body from backend")
              /\ UNCHANGED backendCalls
         [] OTHER ->
              IF backendCalls < 2
              THEN /\ backendCalls' = backendCalls + 1
                   /\ UNCHANGED <<routePc, backendState, streamVars>>
              ELSE /\ routePc' = "done"
                   /\ backendState' = "failed"
                   /\ CatchBlock(FetchFailedText)
                   /\ UNCHANGED backendCalls
    /\ UNCHANGED <<browserVars, body, httpStatus, httpError, sent, wire,
                   buffer, clientCancelled>>

\* await fetch(...) settles: a streaming 2xx answer, a non-2xx answer, an
\* answer without body, or a rejection
FetchSettles(outcome) ==
    /\ routePc = "fetching"
    /\ CASE outcome = "ok" ->
              /\ routePc' = "reading"
              /\ backendState' = "streaming"
              /\ UNCHANGED streamVars
         [] outcome = "non2xx" ->
              /\ routePc' = "done"
              /\ backendState' = "closed"
              /\ CatchBlock("Backend error: 500 - Internal Server Error")
         [] outcome = "nobody" ->
              /\ routePc' = "done"
              /\ backendState' = "closed"
              /\ CatchBlock("No response body from backend")
         [] OTHER ->
              /\ routePc' = "done"
              /\ backendState' = "failed"
              /\ CatchBlock(FetchFailedText)
    /\ UNCHANGED <<browserVars, body, httpStatus, httpError, backendCalls, sent, wire,
                   buffer, clientCancelled>>

\* RouteReadChunk that throws the incomplete last line away
RouteReadChunk_PartialLineLost(n) ==
    /\ routePc = "reading"
    /\ n \in 1..Len(wire)
    /\ LET text == buffer \o SubSeq(wire, 1, n)
           lines == Split(text)
       IN /\ buffer' = << >>
          /\ clientQueue' =
                 clientQueue \o ForwardLines(SubSeq(lines, 1, Len(lines) - 1), 1)
    /\ wire' = SubSeq(wire, n + 1, Len(wire))
    /\ UNCHANGED <<browserVars, body, routePc, httpStatus, httpError, backendCalls,
                   backendState, sent, clientClosed, clientCancelled>>

\* one iteration of the while loop whose read() returns a chunk
RouteReadChunk(n) ==
    /\ routePc = "reading"
    /\ n \in 1..Len(wire)
    /\ LET text == buffer \o SubSeq(wire, 1, n)
           lines == Split(text)
       IN /\ buffer' = lines[Len(lines)]
          /\ clientQueue' =
                 clientQueue \o ForwardLines(SubSeq(lines, 1, Len(lines) - 1), 1)
    /\ wire' = SubSeq(wire, n + 1, Len(wire))
    /\ UNCHANGED <<browserVars, body, routePc, httpStatus, httpError, backendCalls,
                   backendState, sent, clientClosed, clientCancelled>>

\* RouteReadDone that leaves the loop without controller.close()
RouteReadDone_NoClose ==
    /\ routePc = "reading"
    /\ backendState = "closed"
    /\ wire = << >>
    /\ routePc' = "done"
    /\ UNCHANGED <<browserVars, body, httpStatus, httpError, backendCalls, backendVars,
                   buffer, streamVars, clientCancelled>>

\* read() returns done: leave the loop and close the client stream
\* (controller.close() throws when the stream was cancelled; the catch
\* block then throws as well)
RouteReadDone ==
    /\ routePc = "reading"
    /\ backendState = "closed"
    /\ wire = << >>
    /\ routePc' = "done"
    /\ clientClosed' = (clientClosed \/ ~clientCancelled)
    /\ UNCHANGED <<browserVars, body, httpStatus, httpError, backendCalls, backendVars,
                   buffer, clientQueue, clientCancelled>>

\* read() rejects: the catch block of start()
RouteReadThrows ==
    /\ routePc = "reading"
    /\ backendState = "failed"
    /\ routePc' = "done"
    /\ CatchBlock(ReadFailedText)
    /\ UNCHANGED <<browserVars, body, httpStatus, httpError, backendCalls, backendVars,
                   buffer, clientCancelled>>

\* ------------------------------------------------------------ environment
\* the backend writes one more event on its response
BackendEmit(e) ==
    /\ backendState = "streaming"
    /\ Len(sent) < MaxLines
    /\ sent' = Append(sent, e)
    /\ wire' = wire \o SseText(e)
    /\ UNCHANGED <<browserVars, body, routePc, httpStatus, httpError, backendCalls,
                   backendState, buffer, streamVars, clientCancelled>>

\* the backend ends its response
BackendClose ==
    /\ backendState = "streaming"
    /\ backendState' = "closed"
    /\ UNCHANGED <<browserVars, body, routePc, httpStatus, httpError, backendCalls,
                   sent, wire, buffer, streamVars, clientCancelled>>

\* the connection to the backend breaks: the next read() rejects
BackendFail ==
    /\ backendState = "streaming"
    /\ backendState' = "failed"
    /\ UNCHANGED <<browserVars, body, routePc, httpStatus, httpError, backendCalls,
                   sent, wire, buffer, streamVars, clientCancelled>>

\* the client cancels the response stream or disconnects; the stream has no
\* cancel() handler, so nothing else changes
ClientCancel ==
    /\ httpStatus = 200
    /\ ~clientClosed
    /\ ~clientCancelled
    /\ clientCancelled' = TRUE
    /\ UNCHANGED <<browserVars, body, routePc, httpStatus, httpError, backendCalls,
                   backendVars, buffer, streamVars>>

IdleCore ==
    /\ body = << >>
    /\ routePc = "idle"
    /\ httpStatus = 0
    /\ httpError = ""
    /\ backendCalls = 0
    /\ backendState = "idle"
    /\ sent = << >>
    /\ wire = << >>
    /\ buffer = << >>
    /\ clientQueue = << >>
    /\ clientClosed = FALSE
    /\ clientCancelled = FALSE
    /\ srvState = "idle"
    /\ srvEmitted = 0
    /\ srvWire = << >>
    /\ youtubeUrl = EmptyText
    /\ urlError = Null
    /\ processingStage = "idle"
    /\ result = << >>
    /\ pageError = Null
    /\ pagePc = "idle"
    /\ pageBuffer = << >>
    /\ hookUrl = EmptyText
    /\ currentUpdate = << >>
    /\ isStreaming = FALSE
    /\ hookError = Null
    /\ hookPc = "idle"
    /\ hookBuffer = << >>

SongsIdle == songsFile = [kind |-> "missing", songs |-> << >>, text |-> ""] /\ songsAnswer = << >>
RankIdle == gaps = << >> /\ tiers = << >> /\ delivered = << >>
ConcIdle == conc = << >>
ScoreIdle == urlCheck = << >> /\ textScore = << >> /\ fused = << >> /\ ranking = << >>

\* no startMatch call yet; useSongs as useState leaves it before the effect
CallsIdle ==
    /\ runs = << >>
    /\ songs = << >>
    /\ loading = TRUE
    /\ songsError = Null
    /\ fetches = << >>

Init == IdleCore /\ SongsIdle /\ RankIdle /\ ConcIdle /\ ScoreIdle /\ CallsIdle

FetchOutcomes == {"ok", "non2xx", "nobody", "throws"}

Next ==
    \/ \E b \in Bodies : ClientPosts(b)
    \/ PostRequest
    \/ \E o \in FetchOutcomes : FetchSettles(o)
    \/ \E n \in 1..Len(wire) : RouteReadChunk(n)
    \/ RouteReadDone
    \/ RouteReadThrows
    \/ \E e \in BackendEvents : BackendEmit(e)
    \/ BackendClose
    \/ BackendFail
    \/ ClientCancel

Spec == Init /\ [][Next]_vars

\* ------------------------------------------- browser side: the SSE response
\* the events the route can write on a client stream
ClientEvents ==
    { Transform(e) : e \in { b \in BackendEvents : ~TransformThrows(b) } }

\* the route forwards one more event
ServerEmit(ev) ==
    /\ srvState = "streaming"
    /\ srvEmitted < MaxLines
    /\ srvEmitted' = srvEmitted + 1
    /\ srvWire' = srvWire \o SseText(ev)
    /\ UNCHANGED <<routeVars, restVars, srvState, pageVars, hookVars>>

\* the route's catch block: its own error event, then the end of the stream
ServerEmitError ==
    /\ srvState = "streaming"
    /\ srvWire' = srvWire \o SseText(ErrorUpdate(ReadFailedText))
    /\ srvState' = "closed"
    /\ UNCHANGED <<routeVars, restVars, srvEmitted, pageVars, hookVars>>

\* the route closes the stream
ServerClose ==
    /\ srvState = "streaming"
    /\ srvState' = "closed"
    /\ UNCHANGED <<routeVars, restVars, srvEmitted, srvWire, pageVars, hookVars>>

\* the connection to the server breaks: the next read() rejects
ServerFail ==
    /\ srvState = "streaming"
    /\ srvState' = "failed"
    /\ UNCHANGED <<routeVars, restVars, srvEmitted, srvWire, pageVars, hookVars>>

\* error.message of a rejected fetch() or read() in the browser
NetworkErrorText == "Failed to fetch"

\* ------------------------------------------------------------- HomePage
\* [\w-]+ on one path segment or parameter value of the model
IsWord(t) == t # "" /\ t # "absent"

\* youtubeRegex.test(url)
youtubeRegex(u) ==
    /\ u.scheme \in {"", "http://", "https://"}
    /\ \/ /\ u.host \in { <<"youtube", "com">>, <<"www", "youtube", "com">> }
          /\ \/ u.path = <<"watch">> /\ IsWord(u.v)
             \/ Len(u.path) = 2 /\ u.path[1] = "shorts" /\ IsWord(u.path[2])
                /\ u.v = "absent"
       \/ /\ u.host \in { <<"youtu", "be">>, <<"www", "youtu", "be">> }
          /\ Len(u.path) = 1 /\ IsWord(u.path[1])
          /\ u.v = "absent"

\* validateYouTubeUrl: its return value, and the urlError it sets
validateYouTubeUrl(u) == u # EmptyText /\ youtubeRegex(u)

UrlErrorOf(u) ==
    IF u = EmptyText THEN "Please enter a YouTube URL"
    ELSE IF ~youtubeRegex(u) THEN "Please enter a valid YouTube URL"
    ELSE Null

\* disabled={processingStage !== 'idle' && ... 'complete' && ... 'error'}
InputDisabled == processingStage \notin {"idle", "complete", "error"}

ProgressStages == {"downloading", "fingerprinting", "transcribing", "matching"}

\* the body of the for-loop for one parsed event: the new processingStage
\* and result.  The Error thrown for status 'error' is caught by the catch
\* around the loop body, which only logs it.
PageApply(st, data) ==
    IF ~Has(data, "status") THEN st
    ELSE IF data.status \in ProgressStages
         THEN [st EXCEPT !.stage = data.status]
    ELSE IF data.status = "complete"
         THEN [stage |-> "complete",
               result |-> Copy("match", data, "match")
                          @@ Copy("confidence", data, "confidence")
                          @@ Copy("audioSim", data, "audioSim")
                          @@ Copy("lyricsSim", data, "lyricsSim")]
    ELSE st

RECURSIVE PageLines(_, _, _)
PageLines(lines, i, st) ==
    IF i > Len(lines) THEN st
    ELSE IF ~StartsWithData(lines[i]) \/ ~JsonParses(lines[i])
         THEN PageLines(lines, i + 1, st)
    ELSE PageLines(lines, i + 1, PageApply(st, JsonParse(lines[i])))

\* onChange of the URL input
TypeUrl(u) ==
    /\ ~InputDisabled
    /\ youtubeUrl' = u
    /\ urlError' = Null
    /\ UNCHANGED <<routeVars, restVars, srvVars, hookVars, processingStage, result,
                   pageError, pagePc, pageBuffer>>

\* click on "Analyze Cover": handleAnalyze up to its await fetch(...)
HandleAnalyze ==
    /\ ~InputDisabled
    /\ pagePc \in {"idle", "done"}
    /\ urlError' = UrlErrorOf(youtubeUrl)
    /\ IF validateYouTubeUrl(youtubeUrl)
       THEN /\ pageError' = Null
            /\ result' = << >>
            /\ processingStage' = "downloading"
            /\ pagePc' = "fetching"
            /\ srvState' = "idle"
            /\ srvEmitted' = 0
            /\ srvWire' = << >>
       ELSE UNCHANGED <<pageError, result, processingStage, pagePc, srvVars>>
    /\ UNCHANGED <<routeVars, restVars, hookVars, youtubeUrl, pageBuffer>>

\* the catch block of handleAnalyze
PageCatch(text) ==
    /\ pageError' = text
    /\ processingStage' = "error"
    /\ pagePc' = "done"

\* await fetch('/api/match') settles: the route's answer to this URL, or a
\* rejection
PageFetchSettles(rejects) ==
    /\ pagePc = "fetching"
    /\ IF rejects THEN
           /\ PageCatch(NetworkErrorText)
           /\ UNCHANGED <<srvState, pageBuffer>>
       ELSE IF PostAnswer([json |-> TRUE, youtubeUrl |-> youtubeUrl]).status # 200 THEN
           /\ PageCatch("HTTP error! status: 400")
           /\ UNCHANGED <<srvState, pageBuffer>>
       ELSE
           /\ pagePc' = "reading"
           /\ pageBuffer' = << >>
           /\ srvState' = "streaming"
           /\ UNCHANGED <<pageError, processingStage>>
    /\ UNCHANGED <<routeVars, restVars, hookVars, srvEmitted, srvWire, youtubeUrl,
                   urlError, result>>

\* one iteration of the while loop whose read() returns a chunk
PageReadChunk(n) ==
    /\ pagePc = "reading"
    /\ n \in 1..Len(srvWire)
    /\ LET lines == Split(pageBuffer \o SubSeq(srvWire, 1, n))
           st == PageLines(SubSeq(lines, 1, Len(lines) - 1), 1,
                           [stage |-> processingStage, result |-> result])
       IN /\ pageBuffer' = lines[Len(lines)]
          /\ processingStage' = st.stage
          /\ result' = st.result
    /\ srvWire' = SubSeq(srvWire, n + 1, Len(srvWire))
    /\ UNCHANGED <<routeVars, restVars, hookVars, srvState, srvEmitted, youtubeUrl,
                   urlError, pageError, pagePc>>

\* read() returns done: the loop and the handler end
PageReadDone ==
    /\ pagePc = "reading"
    /\ srvState = "closed"
    /\ srvWire = << >>
    /\ pagePc' = "done"
    /\ UNCHANGED <<routeVars, restVars, hookVars, srvVars, youtubeUrl, urlError,
                   processingStage, result, pageError, pageBuffer>>

\* read() rejects
PageReadThrows ==
    /\ pagePc = "reading"
    /\ srvState = "failed"
    /\ PageCatch(NetworkErrorText)
    /\ UNCHANGED <<routeVars, restVars, hookVars, srvVars, youtubeUrl, urlError, result,
                   pageBuffer>>

\* the Results Section is rendered
ResultsShown == result # << >> /\ processingStage = "complete"

\* ResultsSection with the LOW branch used for every other confidence
ResultsSection_NoMatchBranchLost(r) ==
    IF Has(r, "confidence") /\ r.confidence \in {"HIGH", "MODERATE"}
    THEN [heading |-> "Match Found!", showsTrack |-> TRUE]
    ELSE [heading |-> "Needs Review", showsTrack |-> TRUE]

\* the Results Section for result r: its heading, and whether
\* `{result.match?.title} by {result.match?.artist}` is rendered
ResultsSection(r) ==
    IF Has(r, "confidence") /\ r.confidence \in {"HIGH", "MODERATE"}
    THEN [heading |-> "Match Found!", showsTrack |-> TRUE]
    ELSE IF Has(r, "confidence") /\ r.confidence = "LOW"
    THEN [heading |-> "Needs Review", showsTrack |-> TRUE]
    ELSE [heading |-> "No Match Found", showsTrack |-> FALSE]

NextPage ==
    \/ \E u \in Urls \cup {EmptyText} : TypeUrl(u)
    \/ HandleAnalyze
    \/ \E r \in BOOLEAN : PageFetchSettles(r)
    \/ \E n \in 1..Len(srvWire) : PageReadChunk(n)
    \/ PageReadDone
    \/ PageReadThrows
    \/ \E ev \in ClientEvents : ServerEmit(ev)
    \/ ServerEmitError
    \/ ServerClose
    \/ ServerFail

SpecPage == Init /\ [][NextPage]_vars

\* ---------------------------------------------------------- useMatchStream
\* the for-loop over the complete lines of one chunk.  hs is the hook state
\* [update, streaming, error, cancelled]; the loop is left at the first
\* complete or error update, after reader.cancel().
\* HookApply without setError for an error update
HookApply_ErrorNotSet(hs, update) ==
    IF Has(update, "status") /\ update.status \in {"complete", "error"}
    THEN [update |-> update, streaming |-> FALSE, error |-> hs.error, cancelled |-> TRUE]
    ELSE [hs EXCEPT !.update = update]

HookApply(hs, update) ==
    IF Has(update, "status") /\ update.status \in {"complete", "error"}
    THEN [update |-> update,
          streaming |-> FALSE,
          error |-> IF update.status = "error"
                    THEN (IF Has(update, "error") THEN update.error ELSE Null)
                    ELSE hs.error,
          cancelled |-> TRUE]
    ELSE [hs EXCEPT !.update = update]

\* HookLines without the break after a complete or error update
RECURSIVE HookLines_NoBreak(_, _, _)
HookLines_NoBreak(lines, i, hs) ==
    IF i > Len(lines) THEN hs
    ELSE IF ~StartsWithData(lines[i]) \/ ~JsonParses(lines[i])
         THEN HookLines_NoBreak(lines, i + 1, hs)
    ELSE HookLines_NoBreak(lines, i + 1, HookApply(hs, JsonParse(lines[i])))

RECURSIVE HookLines(_, _, _)
HookLines(lines, i, hs) ==
    IF i > Len(lines) \/ hs.cancelled THEN hs
    ELSE IF ~StartsWithData(lines[i]) \/ ~JsonParses(lines[i])
         THEN HookLines(lines, i + 1, hs)
    ELSE HookLines(lines, i + 1, HookApply(hs, JsonParse(lines[i])))

\* stopMatch: the Stop button, shown while isStreaming
StopMatch ==
    /\ isStreaming
    /\ isStreaming' = FALSE
    /\ currentUpdate' = << >>
    /\ hookError' = Null
    /\ UNCHANGED <<routeVars, restVars, srvVars, pageVars, hookUrl, hookPc, hookBuffer>>

\* submit of the form: startMatch up to its await fetch(...)
StartMatch(u) ==
    /\ ~isStreaming
    /\ hookPc \in {"idle", "done"}
    /\ hookUrl' = u
    /\ isStreaming' = TRUE
    /\ hookError' = Null
    /\ currentUpdate' = << >>
    /\ hookPc' = "fetching"
    /\ srvState' = "idle"
    /\ srvEmitted' = 0
    /\ srvWire' = << >>
    /\ UNCHANGED <<routeVars, restVars, pageVars, hookBuffer>>

\* the catch block of startMatch
HookCatch(text) ==
    /\ hookError' = text
    /\ isStreaming' = FALSE
    /\ hookPc' = "done"

\* how await fetch('/api/match') can settle: with the route's answer to this
\* body, with its 500 answer, with a response without body, or rejected
HookFetchOutcomes == {"answers", "status500", "nobody", "rejects"}

\* await fetch('/api/match') settles
HookFetchSettles(outcome) ==
    /\ hookPc = "fetching"
    /\ LET answer == IF outcome = "status500"
                     THEN [status |-> 500, error |-> "Failed to process request"]
                     ELSE PostAnswer([json |-> TRUE, youtubeUrl |-> hookUrl])
       IN IF outcome = "rejects" THEN
              /\ HookCatch(NetworkErrorText)
              /\ UNCHANGED <<srvState, hookBuffer>>
          ELSE IF outcome = "nobody" THEN
              /\ HookCatch("No response body")
              /\ UNCHANGED <<srvState, hookBuffer>>
          ELSE IF answer.status # 200 THEN
              /\ HookCatch(answer.error)
              /\ UNCHANGED <<srvState, hookBuffer>>
          ELSE
              /\ hookPc' = "reading"
              /\ hookBuffer' = << >>
              /\ srvState' = "streaming"
              /\ UNCHANGED <<hookError, isStreaming>>
    /\ UNCHANGED <<routeVars, restVars, pageVars, srvEmitted, srvWire, hookUrl,
                   currentUpdate>>

\* one iteration of the while loop whose read() returns a chunk
HookReadChunk(n) ==
    /\ hookPc = "reading"
    /\ n \in 1..Len(srvWire)
    /\ LET lines == Split(hookBuffer \o SubSeq(srvWire, 1, n))
           hs == HookLines(SubSeq(lines, 1, Len(lines) - 1), 1,
                           [update |-> currentUpdate, streaming |-> isStreaming,
                            error |-> hookError, cancelled |-> FALSE])
       IN /\ hookBuffer' = lines[Len(lines)]
          /\ currentUpdate' = hs.update
          /\ isStreaming' = hs.streaming
          /\ hookError' = hs.error
          /\ IF hs.cancelled
             THEN srvState' = "cancelled" /\ srvWire' = << >>
             ELSE /\ srvState' = srvState
                  /\ srvWire' = SubSeq(srvWire, n + 1, Len(srvWire))
    /\ UNCHANGED <<routeVars, restVars, pageVars, srvEmitted, hookUrl, hookPc>>

\* read() returns done (end of the stream, or after reader.cancel())
HookReadDone ==
    /\ hookPc = "reading"
    /\ \/ srvState = "closed" /\ srvWire = << >>
       \/ srvState = "cancelled"
    /\ isStreaming' = FALSE
    /\ hookPc' = "done"
    /\ UNCHANGED <<routeVars, restVars, pageVars, srvVars, hookUrl, currentUpdate,
                   hookError, hookBuffer>>

\* read() rejects
HookReadThrows ==
    /\ hookPc = "reading"
    /\ srvState = "failed"
    /\ HookCatch(NetworkErrorText)
    /\ UNCHANGED <<routeVars, restVars, pageVars, srvVars, hookUrl, currentUpdate,
                   hookBuffer>>

\* MatchExample, "Complete Result": rendered for every complete update, with
\* the heading "Match Found!" and the song and artist of update.match
CompleteResult(update) ==
    IF Has(update, "status") /\ update.status = "complete"
    THEN [shown |-> TRUE, heading |-> "Match Found!", showsTrack |-> TRUE]
    ELSE [shown |-> FALSE, heading |-> "", showsTrack |-> FALSE]

NextHook ==
    \/ \E u \in Urls : StartMatch(u)
    \/ StopMatch
    \/ \E o \in HookFetchOutcomes : HookFetchSettles(o)
    \/ \E n \in 1..Len(srvWire) : HookReadChunk(n)
    \/ HookReadDone
    \/ HookReadThrows
    \/ \E ev \in ClientEvents : ServerEmit(ev)
    \/ ServerEmitError
    \/ ServerClose
    \/ ServerFail

SpecHook == Init /\ [][NextHook]_vars

\* fairness of the route: its own steps are taken once they can be; nothing
\* obliges the backend to answer, to write or to close
\* ------------------------------------------------- GET /api/songs (songs route)
MaxSongs == 2

\* entries of studio_songs.json
Song(artist, title) ==
    Field("artist", artist) @@ Field("title", title) @@ Field("genre", "Unknown")

SongEntries == { Song("Oasis", "Wonderwall"), Song("Nirvana", "Smells Like Teen Spirit") }

RECURSIVE SeqsUpTo(_, _)
SeqsUpTo(S, n) ==
    IF n = 0 THEN { << >> }
    ELSE LET shorter == SeqsUpTo(S, n - 1)
         IN shorter \cup { Append(q, x) : q \in { t \in shorter : Len(t) = n - 1 }, x \in S }

\* what join(process.cwd(), 'studio_songs.json') can hold when GET runs: no
\* file, a file that cannot be read, or a file with some text: a JSON array
\* of songs, another JSON value, or text that is not JSON
SongFiles ==
    { [kind |-> "missing", songs |-> << >>, text |-> ""],
      [kind |-> "denied", songs |-> << >>, text |-> ""],
      [kind |-> "object", songs |-> << >>, text |-> "{}"],
      [kind |-> "null", songs |-> << >>, text |-> "null"],
      [kind |-> "malformed", songs |-> << >>, text |-> "[{"],
      [kind |-> "malformed", songs |-> << >>, text |-> "ENOENT"] }
    \cup { [kind |-> "array", songs |-> q, text |-> ""] : q \in SeqsUpTo(SongEntries, MaxSongs) }

\* the message of a SyntaxError of JSON.parse: V8 of Node 20 and later quotes
\* the source text, V8 of Node 18 names the offending character only
JsonRuntimes == { "quotesSource", "namesToken" }

SyntaxErrorMessage(text, runtime) ==
    IF runtime = "quotesSource"
    THEN <<"Unexpected token", text, "is not valid JSON">>
    ELSE <<"Unexpected token", "in JSON at position 0">>

\* the Error thrown inside the try block, as the words of its message;
\* << >> when nothing is thrown
ThrownMessage(file, runtime) ==
    CASE file.kind = "missing" ->
             <<"ENOENT", "no such file or directory, open", "studio_songs.json">>
      [] file.kind = "denied" ->
             <<"EACCES", "permission denied, open", "studio_songs.json">>
      [] file.kind = "malformed" -> SyntaxErrorMessage(file.text, runtime)
      [] file.kind = "null" -> <<"Cannot read properties of null (reading 'length')">>
      [] OTHER -> << >>

\* error.message.includes(word)
MessageIncludes(message, word) == \E i \in 1..Len(message) : message[i] = word

\* the response of GET: status and JSON body. For a JSON value without a
\* length, count is undefined and left out of the body
SongsGET(file, runtime) ==
    LET message == ThrownMessage(file, runtime)
    IN IF message # << >> THEN
           IF MessageIncludes(message, "ENOENT")
           THEN Field("status", 404) @@ Field("error", "Songs file not found")
                @@ Field("details", <<"studio_songs.json could not be located">>)
           ELSE Field("status", 500) @@ Field("error", "Failed to load songs")
                @@ Field("details", message)
       ELSE IF file.kind = "array"
       THEN Field("status", 200) @@ Field("songs", file.songs)
            @@ Field("count", Len(file.songs))
       ELSE Field("status", 200) @@ Field("songs", << >>)

notSongsVars == <<routeVars, srvVars, pageVars, hookVars, rankVars, conc, scoreVars,
                  callVars>>

\* the file on disk is replaced, removed or made unreadable
SongsFileChanges(file) ==
    /\ songsFile' = file
    /\ UNCHANGED <<songsAnswer, notSongsVars>>

\* one GET /api/songs
GetSongs(runtime) ==
    /\ songsAnswer' = SongsGET(songsFile, runtime)
    /\ UNCHANGED <<songsFile, notSongsVars>>

NextSongs ==
    \/ \E file \in SongFiles : SongsFileChanges(file)
    \/ \E runtime \in JsonRuntimes : GetSongs(runtime)

SpecSongs == Init /\ [][NextSongs]_vars

\* ------------------------------------- ranking & confidence classifier
MaxResults == 2

\* gaps of results, in hundredths: every value around the three boundaries,
\* and the largest gap there is
Gaps == 0..30 \cup {100}

\* the confidence tier of a gap
ConfidenceOf(gap) ==
    IF gap >= 20 THEN "HIGH"
    ELSE IF gap >= 10 THEN "MODERATE"
    ELSE IF gap >= 5 THEN "LOW"
    ELSE "VERY_LOW"

\* the complete event of a result with this gap
BackendComplete(gap) ==
    [CompleteFlat EXCEPT !.gap = gap, !.confidence = ConfidenceOf(gap)]

notRankVars == <<routeVars, srvVars, pageVars, hookVars, songsVars, conc, scoreVars,
                 callVars>>

\* one pipeline run ends: the result is classified, and its complete event
\* goes through the route to the client
RankResult(gap) ==
    /\ Len(gaps) < MaxResults
    /\ gaps' = Append(gaps, gap)
    /\ tiers' = Append(tiers, ConfidenceOf(gap))
    /\ delivered' = Append(delivered, Transform(BackendComplete(gap)))
    /\ UNCHANGED notRankVars

NextRank == \E gap \in Gaps : RankResult(gap)

SpecRank == Init /\ [][NextRank]_vars

\* ------------------------------------------- two POST /api/match at once
\* conc maps each request in flight to the locals of its start(): the backend
\* response (events written, bytes not yet read, still open), `buffer`, the
\* events enqueued on its own controller, and where it is
Requests == {1, 2}

\* the video each request asks for
ConcVideo(r) == IF r = 1 THEN "dQw4w9WgXcQ" ELSE "9bZkp7q19f0"

\* the events the backend writes on the response of request r
ConcEvents(r) ==
    { [status |-> "downloading", message |-> ConcVideo(r), progress |-> 0],
      [status |-> "error", message |-> ConcVideo(r), progress |-> 25] }

\* `buffer` of a request: one variable shared by every invocation
BufferOf_Shared(c, r) == c[CHOOSE q \in DOMAIN c : TRUE].buffer

\* `buffer` of a request: a local of its own start()
BufferOf(c, r) == c[r].buffer

notConcVars == <<routeVars, srvVars, pageVars, hookVars, songsVars, rankVars, scoreVars,
                 callVars>>

\* POST is called for request r; its fetch answers with a stream
ConcPost(r) ==
    /\ r \notin DOMAIN conc
    /\ conc' = conc @@ (r :> [pc |-> "reading", open |-> TRUE, sent |-> << >>,
                              wire |-> << >>, buffer |-> << >>, queue |-> << >>])
    /\ UNCHANGED notConcVars

\* the backend writes one more event on the response of request r
ConcBackendEmit(r, e) ==
    /\ r \in DOMAIN conc
    /\ conc[r].open
    /\ Len(conc[r].sent) < MaxLines
    /\ conc' = [conc EXCEPT ![r].sent = Append(@, e), ![r].wire = @ \o SseText(e)]
    /\ UNCHANGED notConcVars

\* the backend ends the response of request r
ConcBackendClose(r) ==
    /\ r \in DOMAIN conc
    /\ conc[r].open
    /\ conc' = [conc EXCEPT ![r].open = FALSE]
    /\ UNCHANGED notConcVars

\* one iteration of the while loop of request r (neither client cancels)
ConcReadChunk(r, n) ==
    /\ r \in DOMAIN conc
    /\ conc[r].pc = "reading"
    /\ n \in 1..Len(conc[r].wire)
    /\ LET text == BufferOf(conc, r) \o SubSeq(conc[r].wire, 1, n)
           lines == Split(text)
       IN conc' = [conc EXCEPT
                     ![r].buffer = lines[Len(lines)],
                     ![r].queue = @ \o ForwardLines(SubSeq(lines, 1, Len(lines) - 1), 1),
                     ![r].wire = SubSeq(@, n + 1, Len(@))]
    /\ UNCHANGED notConcVars

\* read() of request r returns done
ConcReadDone(r) ==
    /\ r \in DOMAIN conc
    /\ conc[r].pc = "reading"
    /\ ~conc[r].open
    /\ conc[r].wire = << >>
    /\ conc' = [conc EXCEPT ![r].pc = "done"]
    /\ UNCHANGED notConcVars

NextConc ==
    \/ \E r \in Requests : ConcPost(r)
    \/ \E r \in Requests : \E e \in ConcEvents(r) : ConcBackendEmit(r, e)
    \/ \E r \in Requests : ConcBackendClose(r)
    \/ \E r \in Requests : \E n \in 1..MaxLines * 4 : ConcReadChunk(r, n)
    \/ \E r \in Requests : ConcReadDone(r)

SpecConc == Init /\ [][NextConc]_vars

\* ------------------------------------------------ isValidYouTubeUrl alone
\* URL texts: with and without scheme, hosts inside and outside the valid
\* domains, paths with and without something after /embed/ or /, and the
\* `v` parameter absent, empty or set
UrlTexts ==
    { Url(scheme, host, path, v) :
        scheme \in {"https://", ""},
        host \in { <<"youtube", "com">>, <<"www", "youtube", "com">>,
                   <<"m", "youtube", "com">>, <<"music", "YouTube", "com">>,
                   <<"youtu", "be">>, <<"www", "youtu", "be">>,
                   <<"evil", "com">>, <<"youtube", "com", "evil", "com">> },
        path \in { << >>, <<"watch">>, <<"embed", "">>, <<"embed", "ID">>,
                   <<"ID">>, <<"playlist">>, <<"shorts", "ID">> },
        v \in {"absent", "", "ID"} }

notScoreVars == <<routeVars, srvVars, pageVars, hookVars, songsVars, rankVars, conc,
                  callVars>>

\* one call of isValidYouTubeUrl
CheckUrl(u) ==
    /\ urlCheck' = [url |-> u, accepted |-> isValidYouTubeUrl(u)]
    /\ UNCHANGED <<notScoreVars, textScore, fused, ranking>>

NextUrl == \E u \in UrlTexts : CheckUrl(u)

SpecUrl == Init /\ [][NextUrl]_vars

\* --------------------------------------------------- similarity scoring
\* Numbers are exact: channel similarities and lyricsSim in hundredths,
\* audioSim in ten-thousandths, combinedScore in millionths; a Jaccard index
\* is the pair of its numerator and denominator.
Words == {"today", "maybe", "wonderwall", "save"}

\* Jaccard with the size of the query's set as denominator
Jaccard_OverQuery(A, B) ==
    IF A \cup B = {} THEN [num |-> 0, den |-> 1]
    ELSE IF A = {} THEN [num |-> 0, den |-> 1]
    ELSE [num |-> Cardinality(A \cap B), den |-> Cardinality(A)]

\* |A intersect B| / |A union B|, and 0 when both sets are empty
Jaccard(A, B) ==
    IF A \cup B = {} THEN [num |-> 0, den |-> 1]
    ELSE [num |-> Cardinality(A \cap B), den |-> Cardinality(A \cup B)]

\* the text similarity of a transcript and the lyrics of a reference, and
\* of the same two the other way round
ScoreText(A, B) ==
    /\ textScore' = [a |-> A, b |-> B, ab |-> Jaccard(A, B), ba |-> Jaccard(B, A)]
    /\ UNCHANGED <<notScoreVars, urlCheck, fused, ranking>>

NextText == \E A \in SUBSET Words : \E B \in SUBSET Words : ScoreText(A, B)

SpecText == Init /\ [][NextText]_vars

\* similarities in hundredths
Levels == {0, 25, 50, 60, 100}

\* AudioSim with chroma_stft weighted like chroma_cqt
AudioSim_WeightsOff(c) ==
    35 * c.chroma_stft + 35 * c.chroma_cqt + 25 * c.tonnetz + 10 * c.spectral_contrast

\* the weighted combination of the four channel similarities
AudioSim(c) ==
    30 * c.chroma_stft + 35 * c.chroma_cqt + 25 * c.tonnetz + 10 * c.spectral_contrast

\* the fusion of audioSim (ten-thousandths) and lyricsSim (hundredths)
CombinedScore(audioSim, lyricsSim) == 30 * audioSim + 70 * (lyricsSim * 100)

\* a (query, reference) pair is scored
ScorePair(c, lyricsSim) ==
    /\ DOMAIN fused = {}
    /\ fused' = [channels |-> c, lyricsSim |-> lyricsSim, audioSim |-> AudioSim(c),
                 combinedScore |-> CombinedScore(AudioSim(c), lyricsSim)]
    /\ UNCHANGED <<notScoreVars, urlCheck, textScore, ranking>>

NextFuse ==
    \E c \in [chroma_stft : Levels, chroma_cqt : Levels, tonnetz : Levels,
               spectral_contrast : Levels] :
        \E lyricsSim \in Levels : ScorePair(c, lyricsSim)

SpecFuse == Init /\ [][NextFuse]_vars

\* ------------------------------------------------------------- ranking
MaxLibrary == 6

\* combinedScore of a (query, reference) pair, in hundredths
Scores == {55, 80}

\* the scored pairs of a library, in library iteration order
ScoredLibraries ==
    UNION { [1..n -> Scores] : n \in 0..MaxLibrary }

Pair(id, score) == [track |-> id, combinedScore |-> score]

\* Insert that puts a pair before the pairs of equal score
RECURSIVE Insert_BeforeEqual(_, _)
Insert_BeforeEqual(sorted, p) ==
    IF sorted = << >> THEN << p >>
    ELSE IF sorted[1].combinedScore > p.combinedScore
         THEN << sorted[1] >> \o Insert_BeforeEqual(Tail(sorted), p)
    ELSE << p >> \o sorted

\* one step of a stable sort by combinedScore descending: p, which comes
\* later in the library than every pair of `sorted`, goes after the pairs
\* of higher or equal score
RECURSIVE Insert(_, _)
Insert(sorted, p) ==
    IF sorted = << >> THEN << p >>
    ELSE IF sorted[1].combinedScore >= p.combinedScore
         THEN << sorted[1] >> \o Insert(Tail(sorted), p)
    ELSE << p >> \o sorted

RECURSIVE SortByScore(_, _)
SortByScore(scores, n) ==
    IF n = 0 THEN << >>
    ELSE Insert(SortByScore(scores, n - 1), Pair(n, scores[n]))

\* the match result of a scored library: the order, its first five, and the
\* gap between rank 1 and rank 2 (undefined for fewer than two tracks)
MatchResult(scores) ==
    LET order == SortByScore(scores, Len(scores))
    IN Field("order", order)
       @@ Field("top5", SubSeq(order, 1, IF Len(order) < 5 THEN Len(order) ELSE 5))
       @@ (IF Len(order) >= 2
           THEN Field("gap", order[1].combinedScore - order[2].combinedScore)
           ELSE << >>)

\* a query is ranked against a library
RankLibrary(scores) ==
    /\ DOMAIN ranking = {}
    /\ ranking' = Field("library", scores) @@ MatchResult(scores)
    /\ UNCHANGED <<notScoreVars, urlCheck, textScore, fused>>

NextLibrary == \E scores \in ScoredLibraries : RankLibrary(scores)

SpecLibrary == Init /\ [][NextLibrary]_vars

RouteStep ==
    \/ PostRequest
    \/ \E n \in 1..Len(wire) : RouteReadChunk(n)
    \/ RouteReadDone
    \/ RouteReadThrows

FairSpec == Spec /\ WF_vars(RouteStep)

\* --------------------------------- the relay on a stream with other lines
\* a smaller backend alphabet, and lines that are not events
RelayEvents ==
    { [status |-> "downloading", message |-> "Downloading audio...", progress |-> 0],
      StageError(25), CompleteFlat }

\* a line that does not start with `data: ` (an SSE comment), and a `data: `
\* line whose JSON text is cut short
JunkKinds == {"comment", "badjson"}

Comment == [k |-> "comment"]

JunkLine(kind) ==
    IF kind = "comment" THEN [raw |-> ": keep-alive"]
    ELSE [raw |-> "data: {\"status\": \"downl"]

JunkText(kind) ==
    IF kind = "comment" THEN << Comment, NL, NL >>
    ELSE << DataHead([raw |-> "data: {\"status\": \"downl"]), NL, NL >>

\* the backend writes a line that is not an event
BackendEmitJunk(kind) ==
    /\ backendState = "streaming"
    /\ Len(sent) < MaxLines
    /\ sent' = Append(sent, JunkLine(kind))
    /\ wire' = wire \o JunkText(kind)
    /\ UNCHANGED <<browserVars, body, routePc, httpStatus, httpError, backendCalls,
                   backendState, buffer, streamVars, clientCancelled>>

NextRelay ==
    \/ \E b \in Bodies : ClientPosts(b)
    \/ PostRequest
    \/ \E o \in FetchOutcomes : FetchSettles(o)
    \/ \E n \in 1..Len(wire) : RouteReadChunk(n)
    \/ RouteReadDone
    \/ RouteReadThrows
    \/ \E e \in RelayEvents : BackendEmit(e)
    \/ \E kind \in JunkKinds : BackendEmitJunk(kind)
    \/ BackendClose
    \/ BackendFail
    \/ ClientCancel

SpecRelay == Init /\ [][NextRelay]_vars /\ WF_vars(RouteStep)

\* ------------------------------ the relay on a response whose last line is
\* not ended by a newline
\* the backend writes a last `data: ` line without the newline after it and
\* ends its response
BackendEmitUnterminated(e) ==
    /\ backendState = "streaming"
    /\ Len(sent) < MaxLines
    /\ sent' = Append(sent, e)
    /\ wire' = wire \o << DataHead(e), DataTail(e) >>
    /\ backendState' = "closed"
    /\ UNCHANGED <<browserVars, body, routePc, httpStatus, httpError, backendCalls,
                   buffer, streamVars, clientCancelled>>

NextTail ==
    \/ \E b \in Bodies : ClientPosts(b)
    \/ PostRequest
    \/ \E o \in FetchOutcomes : FetchSettles(o)
    \/ \E n \in 1..Len(wire) : RouteReadChunk(n)
    \/ RouteReadDone
    \/ RouteReadThrows
    \/ \E e \in RelayEvents : BackendEmit(e)
    \/ \E e \in RelayEvents : BackendEmitUnterminated(e)
    \/ BackendClose
    \/ BackendFail
    \/ ClientCancel

SpecTail == Init /\ [][NextTail]_vars

\* ------------------------------------- useMatchStream: overlapping calls
\* runs maps each startMatch call to the locals of that call (where it is,
\* `buffer`) and to its own /api/match response (state, bytes not yet read,
\* events written).  The calls share currentUpdate, isStreaming and error,
\* the state of the one hook.
Calls == {1, 2}

\* the events the route writes on the response of call r
RunEvents(r) == { Transform(e) : e \in ConcEvents(r) }

\* the startMatch call started last
LatestRun == Cardinality(DOMAIN runs)

notRunVars == <<routeVars, srvVars, pageVars, hookUrl, hookPc, hookBuffer,
                songsVars, rankVars, conc, scoreVars, songs, loading, songsError,
                fetches>>

\* submit of the form, enabled while isStreaming is false: startMatch up to
\* its await fetch(...)
RunStart ==
    /\ ~isStreaming
    /\ LatestRun + 1 \in Calls
    /\ isStreaming' = TRUE
    /\ hookError' = Null
    /\ currentUpdate' = << >>
    /\ runs' = runs @@ ((LatestRun + 1) :>
                   [pc |-> "fetching", buffer |-> << >>, srv |-> "idle",
                    wire |-> << >>, emitted |-> 0])
    /\ UNCHANGED notRunVars

\* await fetch('/api/match') of call r settles: a streaming answer, or a
\* rejection, which the catch block handles
RunFetchSettles(r, rejects) ==
    /\ r \in DOMAIN runs
    /\ runs[r].pc = "fetching"
    /\ IF rejects
       THEN /\ hookError' = NetworkErrorText
            /\ isStreaming' = FALSE
            /\ runs' = [runs EXCEPT ![r].pc = "done"]
       ELSE /\ runs' = [runs EXCEPT ![r].pc = "reading", ![r].srv = "streaming"]
            /\ UNCHANGED <<hookError, isStreaming>>
    /\ UNCHANGED <<notRunVars, currentUpdate>>

\* one iteration of the while loop of call r whose read() returns a chunk
RunReadChunk(r, n) ==
    /\ r \in DOMAIN runs
    /\ runs[r].pc = "reading"
    /\ n \in 1..Len(runs[r].wire)
    /\ LET lines == Split(runs[r].buffer \o SubSeq(runs[r].wire, 1, n))
           hs == HookLines(SubSeq(lines, 1, Len(lines) - 1), 1,
                           [update |-> currentUpdate, streaming |-> isStreaming,
                            error |-> hookError, cancelled |-> FALSE])
       IN /\ currentUpdate' = hs.update
          /\ isStreaming' = hs.streaming
          /\ hookError' = hs.error
          /\ runs' = [runs EXCEPT
                        ![r].buffer = lines[Len(lines)],
                        ![r].srv = IF hs.cancelled THEN "cancelled" ELSE @,
                        ![r].wire = IF hs.cancelled THEN << >>
                                    ELSE SubSeq(@, n + 1, Len(@))]
    /\ UNCHANGED notRunVars

\* read() of call r returns done (end of the stream, or after reader.cancel())
RunReadDone(r) ==
    /\ r \in DOMAIN runs
    /\ runs[r].pc = "reading"
    /\ \/ runs[r].srv = "closed" /\ runs[r].wire = << >>
       \/ runs[r].srv = "cancelled"
    /\ isStreaming' = FALSE
    /\ runs' = [runs EXCEPT ![r].pc = "done"]
    /\ UNCHANGED <<notRunVars, currentUpdate, hookError>>

\* read() of call r rejects
RunReadThrows(r) ==
    /\ r \in DOMAIN runs
    /\ runs[r].pc = "reading"
    /\ runs[r].srv = "failed"
    /\ hookError' = NetworkErrorText
    /\ isStreaming' = FALSE
    /\ runs' = [runs EXCEPT ![r].pc = "done"]
    /\ UNCHANGED <<notRunVars, currentUpdate>>

\* the route forwards one more event on the response of call r, once the
\* browser has read the bytes of the event before
RunServerEmit(r, ev) ==
    /\ r \in DOMAIN runs
    /\ runs[r].srv = "streaming"
    /\ runs[r].wire = << >>
    /\ runs[r].emitted < MaxLines
    /\ runs' = [runs EXCEPT ![r].emitted = @ + 1, ![r].wire = @ \o SseText(ev)]
    /\ UNCHANGED <<notRunVars, currentUpdate, isStreaming, hookError>>

\* the response of call r ends, or its connection breaks
RunServerEnds(r, how) ==
    /\ r \in DOMAIN runs
    /\ runs[r].srv = "streaming"
    /\ runs' = [runs EXCEPT ![r].srv = how]
    /\ UNCHANGED <<notRunVars, currentUpdate, isStreaming, hookError>>

NextRuns ==
    \/ RunStart
    \/ StopMatch
    \/ \E r \in Calls : \E rejects \in BOOLEAN : RunFetchSettles(r, rejects)
    \/ \E r \in Calls : \E n \in 1..MaxLines * 4 : RunReadChunk(r, n)
    \/ \E r \in Calls : RunReadDone(r)
    \/ \E r \in Calls : RunReadThrows(r)
    \/ \E r \in Calls : \E ev \in RunEvents(r) : RunServerEmit(r, ev)
    \/ \E r \in Calls : \E how \in {"closed", "failed"} : RunServerEnds(r, how)

SpecRuns == Init /\ [][NextRuns]_vars

\* ------------------------------------------------------------- useSongs
\* fetches maps each fetchSongs call (the one of the effect, then the ones
\* of refetch) to where it is and to the songs of its answer; the calls
\* share songs, loading and error, the state of the one hook.
MaxFetches == 3

\* the answers of GET /api/songs
SongsAnswers == { SongsGET(file, runtime) : file \in SongFiles, runtime \in JsonRuntimes }

\* the fetchSongs call started last
LatestFetch == Cardinality(DOMAIN fetches)

notFetchVars == <<routeVars, srvVars, pageVars, hookVars, songsVars, rankVars, conc,
                  scoreVars, runs>>

\* fetchSongs up to its await fetch('/api/songs')
FetchSongs ==
    /\ LatestFetch < MaxFetches
    /\ loading' = TRUE
    /\ songsError' = Null
    /\ fetches' = fetches @@ ((LatestFetch + 1) :> [state |-> "fetching", songs |-> << >>])
    /\ UNCHANGED <<notFetchVars, songs>>

\* the message of the Error thrown for an answer that is not ok
SongsErrorText(answer) ==
    IF TruthyText(answer, "error") THEN answer.error ELSE "HTTP error! status: 500"

\* the rest of call f once its fetch has answered: setSongs(data.songs), or
\* the catch block; then the finally block
FetchSongsAnswers(f, answer) ==
    /\ f \in DOMAIN fetches
    /\ fetches[f].state = "fetching"
    /\ IF answer.status = 200
       THEN /\ songs' = answer.songs
            /\ UNCHANGED songsError
            /\ fetches' = [fetches EXCEPT ![f] = [state |-> "loaded", songs |-> answer.songs]]
       ELSE /\ songsError' = SongsErrorText(answer)
            /\ songs' = << >>
            /\ fetches' = [fetches EXCEPT ![f] = [state |-> "failed", songs |-> << >>]]
    /\ loading' = FALSE
    /\ UNCHANGED notFetchVars

\* the fetch of call f rejects: the catch block, then the finally block
FetchSongsRejects(f) ==
    /\ f \in DOMAIN fetches
    /\ fetches[f].state = "fetching"
    /\ songsError' = NetworkErrorText
    /\ songs' = << >>
    /\ fetches' = [fetches EXCEPT ![f] = [state |-> "failed", songs |-> << >>]]
    /\ loading' = FALSE
    /\ UNCHANGED notFetchVars

NextFetch ==
    \/ FetchSongs
    \/ \E f \in 1..MaxFetches : \E answer \in SongsAnswers : FetchSongsAnswers(f, answer)
    \/ \E f \in 1..MaxFetches : FetchSongsRejects(f)

SpecFetch == Init /\ [][NextFetch]_vars

\* ================================================================ claims
IsTerminal(ev) == Has(ev, "status") /\ ev.status \in {"complete", "error"}

\* number of positions of q holding ev
Count(q, ev) == Cardinality({ i \in 1..Len(q) : q[i] = ev })

\* C1: a request whose youtubeUrl is missing, empty or not a valid YouTube
\* URL is answered with HTTP 400 and a JSON error; the backend is not called
\* and nothing is enqueued on a stream.
C1_InvalidRequestRejected ==
    ( /\ routePc \in {"fetching", "reading", "done"}
      /\ body.json
      /\ (UrlMissing(body) \/ ~isValidYouTubeUrl(body.youtubeUrl)) )
    => /\ httpStatus = 400
       /\ httpError \in {"YouTube URL is required", "Invalid YouTube URL format"}
       /\ backendCalls = 0
       /\ backendState = "idle"
       /\ clientQueue = << >>

C1_Witness ==
    /\ routePc = "done"
    /\ httpStatus = 400
    /\ httpError = "Invalid YouTube URL format"
    /\ backendCalls = 0

\* C2: on the client stream at most one complete/error event is enqueued and
\* it is the last event: no event follows a terminal event.
C2_TerminalEventIsLast ==
    \A i \in 1..Len(clientQueue) :
        IsTerminal(clientQueue[i]) => i = Len(clientQueue)

\* C3: a handleAnalyze run whose stream has closed or failed has left
\* processingStage in complete or error.
C3_RunEndsInTerminalStage ==
    pagePc = "done" => processingStage \in {"complete", "error"}

\* the text handleAnalyze takes from an error event
PageErrorText(d) ==
    IF TruthyText(d, "message") THEN d.message
    ELSE IF TruthyText(d, "error") THEN d.error
    ELSE "Processing failed"

\* the texts of the error events among the complete lines of the next read
PageErrorTexts(n) ==
    LET lines == Split(pageBuffer \o SubSeq(srvWire, 1, n))
    IN { PageErrorText(JsonParse(lines[i])) :
           i \in { j \in 1..(Len(lines) - 1) :
                     /\ StartsWithData(lines[j]) /\ JsonParses(lines[j])
                     /\ JsonParse(lines[j]).status = "error" } }

\* C4: when handleAnalyze reads an event with status error, processingStage
\* becomes 'error' and the error state holds the event's text.
C4_ErrorEventShown ==
    [][ \A n \in 1..Len(srvWire) :
          (PageReadChunk(n) /\ PageErrorTexts(n) # {})
          => (processingStage' = "error" /\ pageError' \in PageErrorTexts(n)) ]_vars

\* C5: once the client has cancelled the response stream, the route reads
\* nothing more from the backend response.
C5_NoBackendReadAfterCancel ==
    [][ clientCancelled => Len(wire') >= Len(wire) ]_vars

\* the hook right after stopMatch, with the read loop of startMatch still
\* running on an open stream
Stopped ==
    /\ hookPc = "reading"
    /\ ~isStreaming
    /\ currentUpdate = << >>
    /\ hookError = Null

\* C6: after stopMatch on an active stream the hook state does not change any
\* more: currentUpdate and error stay null, isStreaming stays false.
C6_NoUpdateAfterStop ==
    [][ Stopped => (currentUpdate' = << >> /\ hookError' = Null /\ ~isStreaming') ]_vars

\* C7: an accepted request whose backend does not answer, or stops writing
\* without closing, still gets its client stream closed eventually.
C7_StreamEventuallyClosed ==
    (httpStatus = 200 /\ ~clientCancelled) ~> (clientClosed \/ clientCancelled)

\* C8: when the backend read throws after progress events were forwarded, the
\* error event of the route carries the progress of the last forwarded event.
C8_ErrorCarriesProgressAtFailure ==
    LET n == Len(clientQueue)
    IN ( /\ routePc = "done" /\ backendState = "failed" /\ n >= 2
         /\ clientQueue[n] = ErrorUpdate(ReadFailedText)
         /\ ~IsTerminal(clientQueue[n - 1])
         /\ Has(clientQueue[n - 1], "progress") )
       => clientQueue[n].progress = clientQueue[n - 1].progress

\* the client event expected for a stage failure reported at progress p
StageErrorUpdate(p) ==
    [status |-> "error", progress |-> p, error |-> StageMessage(p)]

\* C9: a backend error event of a stage failure (progress 25/50/75/90) is
\* forwarded as exactly one error event with the same progress and the
\* backend's message: never more client events than backend events, and as
\* many once the whole response was relayed to a connected client.
C9_StageErrorForwarded ==
    \A p \in StageProgress :
        /\ Count(clientQueue, StageErrorUpdate(p)) <= Count(sent, StageError(p))
        /\ \A i \in 1..Len(clientQueue) :
              ( /\ clientQueue[i].status = "error"
                /\ clientQueue[i].error = StageMessage(p) )
              => clientQueue[i].progress = p
        /\ (routePc = "done" /\ backendState = "closed" /\ ~clientCancelled)
           => Count(clientQueue, StageErrorUpdate(p)) = Count(sent, StageError(p))

C9_Witness ==
    /\ routePc = "done" /\ backendState = "closed" /\ ~clientCancelled
    /\ Count(sent, StageError(75)) = 1
    /\ Count(clientQueue, StageErrorUpdate(75)) = 1

\* C10: every complete event on the client stream has progress 100, the
\* match, confidence, audioSim and lyricsSim, and also combinedScore, gap and
\* top5.
C10_CompleteEventFields ==
    \A i \in 1..Len(clientQueue) :
        clientQueue[i].status = "complete"
        => /\ clientQueue[i].progress = 100
           /\ { "match", "confidence", "audioSim", "lyricsSim",
                "combinedScore", "gap", "top5" } \subseteq DOMAIN clientQueue[i]
           /\ { "artist", "title" } \subseteq DOMAIN clientQueue[i].match

\* number of positions of q holding an event with status st
CountStatus(q, st) ==
    Cardinality({ i \in 1..Len(q) : Has(q[i], "status") /\ q[i].status = st })

\* C11: every error event on the client stream has an integer progress and
\* carries its reason in a string field named `message`.
C11_ErrorEventHasMessage ==
    \A i \in 1..Len(clientQueue) :
        clientQueue[i].status = "error"
        => /\ Has(clientQueue[i], "progress")
           /\ clientQueue[i].progress \in Int
           /\ Has(clientQueue[i], "message")

\* C12: once the whole backend response was relayed to a connected client,
\* the client stream holds one complete event per complete event of the
\* backend, whichever layout the backend used.
C12_CompleteAlwaysForwarded ==
    (routePc = "done" /\ backendState = "closed" /\ ~clientCancelled)
    => CountStatus(clientQueue, "complete") = CountStatus(sent, "complete")

\* C13: every non-terminal event on the client stream has one of the four
\* stage statuses and an integer progress in 0..100.
C13_ProgressEventWellFormed ==
    \A i \in 1..Len(clientQueue) :
        ~IsTerminal(clientQueue[i])
        => /\ Has(clientQueue[i], "status")
           /\ clientQueue[i].status \in ProgressStages
           /\ Has(clientQueue[i], "progress")
           /\ clientQueue[i].progress \in 0..100

\* position of a stage in the order of the pipeline
StageRank(st) ==
    CASE st = "idle" -> 0
      [] st = "downloading" -> 1
      [] st = "fingerprinting" -> 2
      [] st = "transcribing" -> 3
      [] st = "matching" -> 4
      [] st = "complete" -> 5
      [] OTHER -> 6

\* C14: while a handleAnalyze run reads its stream, processingStage never
\* goes back to an earlier stage and never leaves complete; it may go to
\* error from a stage before complete.
C14_StageOnlyMovesForward ==
    [][ pagePc = "reading"
        => \/ processingStage' = processingStage
           \/ /\ processingStage # "complete"
              /\ StageRank(processingStage') > StageRank(processingStage) ]_vars

\* C15: the page renders the matched track only for HIGH or MODERATE (under
\* "Match Found!") and for LOW (under "Needs Review"); a VERY_LOW result is
\* rendered as "No Match Found" without the track.
C15_PageHidesVeryLow ==
    ResultsShown
    => LET v == ResultsSection(result)
           c == IF Has(result, "confidence") THEN result.confidence ELSE "undefined"
       IN /\ v.showsTrack => c \in {"HIGH", "MODERATE", "LOW"}
          /\ c \in {"HIGH", "MODERATE"} => v.heading = "Match Found!"
          /\ c = "LOW" => v.heading = "Needs Review"
          /\ c = "VERY_LOW" => (v.heading = "No Match Found" /\ ~v.showsTrack)

C15_Witness ==
    /\ ResultsShown
    /\ result.confidence = "VERY_LOW"
    /\ ResultsSection(result).heading = "No Match Found"

\* C16: MatchExample does not render a complete update of confidence
\* VERY_LOW as a found match with its song and artist.
C16_ExampleHidesVeryLow ==
    ( /\ Has(currentUpdate, "status") /\ currentUpdate.status = "complete"
      /\ Has(currentUpdate, "confidence") /\ currentUpdate.confidence = "VERY_LOW" )
    => ~CompleteResult(currentUpdate).showsTrack

\* the backend complete events the transform can forward
FlatCompletes(q) ==
    Cardinality({ i \in 1..Len(q) : q[i].status = "complete" /\ ~TransformThrows(q[i]) })

\* C17: an accepted POST issues exactly one backend request and a rejected one
\* none, whatever failure follows (non-2xx, missing body, rejected fetch or
\* read, error event); and the client never receives more complete events
\* than the backend sent, so no complete event stands in for a failure.
C17_OneBackendRequestNoSubstitute ==
    /\ backendCalls <= 1
    /\ (routePc \in {"fetching", "reading", "done"} /\ httpStatus = 200) => backendCalls = 1
    /\ (routePc = "done" /\ httpStatus # 200) => backendCalls = 0
    /\ CountStatus(clientQueue, "complete") <= FlatCompletes(sent)
    /\ (routePc = "done" /\ httpStatus = 200 /\ backendState = "failed" /\ ~clientCancelled)
         => /\ Len(clientQueue) >= 1
            /\ clientQueue[Len(clientQueue)].status = "error"

\* a fetch or a read was rejected, and the run is over with one request made
C17_Witness ==
    /\ routePc = "done" /\ backendState = "failed" /\ backendCalls = 1
    /\ Len(clientQueue) >= 1
    /\ clientQueue[Len(clientQueue)].status = "error"

\* what the songs route is to answer for a file
SongsExpected(file, answer) ==
    CASE file.kind = "array" ->
             /\ answer.status = 200
             /\ Has(answer, "songs") /\ answer.songs = file.songs
             /\ Has(answer, "count") /\ answer.count = Len(file.songs)
      [] file.kind = "missing" ->
             answer.status = 404 /\ answer.error = "Songs file not found"
      [] OTHER ->
             answer.status = 500 /\ answer.error = "Failed to load songs"

\* C19: every GET /api/songs answers 200 with the parsed songs and their
\* count when the file holds a list of songs, 404 'Songs file not found'
\* when the file does not exist, and 500 'Failed to load songs' for every
\* other failure.
C19_SongsAnswer ==
    [][ songsAnswer' # songsAnswer => SongsExpected(songsFile, songsAnswer') ]_vars

TierRank(tier) ==
    CASE tier = "VERY_LOW" -> 0 [] tier = "LOW" -> 1
      [] tier = "MODERATE" -> 2 [] tier = "HIGH" -> 3

VideoOf(ev) == IF ev.status = "error" THEN ev.error ELSE ev.message

\* the events the route is to deliver for the backend events e[1..n]
RECURSIVE Transformed(_, _)
Transformed(events, n) ==
    IF n = 0 THEN << >> ELSE Append(Transformed(events, n - 1), Transform(events[n]))

\* C18: with two requests in flight, under every interleaving of their reads,
\* each client receives the events of the backend response of its own
\* request only, in order and complete once that response was read to the
\* end, and the partial line kept by a request holds bytes of its own
\* response only.
C18_RequestsIndependent ==
    \A r \in DOMAIN conc :
        LET me == conc[r]
        IN /\ \A i \in 1..Len(me.queue) : VideoOf(me.queue[i]) = ConcVideo(r)
           /\ Len(me.queue) <= Len(me.sent)
           /\ me.queue = Transformed(me.sent, Len(me.queue))
           /\ me.wire = << >> => me.queue = Transformed(me.sent, Len(me.sent))
           /\ \A i \in 1..Len(me.buffer) :
                 /\ me.buffer[i] # NL
                 /\ me.buffer[i].ev \in ConcEvents(r)

\* both requests are reading, each has delivered an event of its own and
\* keeps a partial line, the other request having read in between
C18_Witness ==
    /\ DOMAIN conc = Requests
    /\ \A r \in Requests :
          /\ conc[r].pc = "reading"
          /\ Len(conc[r].queue) >= 1
          /\ Len(conc[r].buffer) >= 1

\* the backend wrote events of non-terminal status only
NonTerminalOnly == \A i \in 1..Len(sent) : ~IsTerminal(sent[i])

\* the events of a queue that are not complete or error events
NotTerminal(ev) == ~IsTerminal(ev)
Forwarded(q) == SelectSeq(q, NotTerminal)

\* two events agree on status, progress and message
SameUpdate(a, b) ==
    \A k \in {"status", "progress", "message"} :
        /\ Has(a, k) <=> Has(b, k)
        /\ Has(a, k) => a[k] = b[k]

\* C24: for a backend stream of `data:` lines with non-terminal statuses and
\* a connected client, however the bytes are cut into chunks, the events
\* forwarded are the backend's events in their order, each with the status,
\* progress and message of its line, and all of them once every byte was
\* read.
C24_RelayFaithful ==
    (NonTerminalOnly /\ ~clientCancelled)
    => LET fw == Forwarded(clientQueue)
       IN /\ Len(fw) <= Len(sent)
          /\ \A i \in 1..Len(fw) : SameUpdate(fw[i], sent[i])
          /\ (routePc \in {"reading", "done"} /\ wire = << >>) => Len(fw) = Len(sent)
          /\ Len(clientQueue) <= Len(fw) + 1

\* a chunk ended inside the second line after the first was forwarded, and
\* later the whole stream was relayed
C24_Witness ==
    /\ NonTerminalOnly /\ ~clientCancelled
    /\ Len(sent) = 2 /\ sent[1] # sent[2]
    /\ Len(buffer) = 1 /\ wire # << >>
    /\ Len(clientQueue) = 1

\* the reasons the route reports for a failure of the backend call
BackendFailureTexts ==
    { "Backend error: 500 - Internal Server Error", "No response body from backend",
      FetchFailedText, ReadFailedText }

\* the route leaves start() on a failure of the backend call: the fetch did
\* not give a stream, or a read was rejected
BackendCallFails ==
    /\ routePc' = "done"
    /\ \/ routePc = "fetching"
       \/ routePc = "reading" /\ backendState = "failed"

\* C25: when the backend answers non-2xx or without body, or the fetch or a
\* read throws, before any event was forwarded to a connected client, the
\* request has still been answered with the stream (200), exactly one event
\* {status error, progress 0, error reason} is enqueued and the stream is
\* closed; nothing is enqueued on the closed stream afterwards.
C25_BackendFailureOneErrorEvent ==
    [][ /\ (BackendCallFails /\ clientQueue = << >> /\ ~clientCancelled)
           => /\ httpStatus' = 200
              /\ \E text \in BackendFailureTexts :
                    clientQueue' = << [status |-> "error", progress |-> 0, error |-> text] >>
              /\ clientClosed'
        /\ clientClosed => (clientQueue' = clientQueue /\ clientClosed')
      ]_vars

\* a read was rejected before the route had forwarded anything
C25_Witness ==
    /\ routePc = "done" /\ backendState = "failed" /\ httpStatus = 200
    /\ clientQueue = << ErrorUpdate(ReadFailedText) >>
    /\ clientClosed

\* the backend response of an accepted request has ended or failed
BackendResponseOver ==
    /\ httpStatus = 200
    /\ routePc \in {"reading", "done"}
    /\ backendState \in {"closed", "failed"}

\* C30: once the backend response of an accepted request has ended or
\* failed, the client stream of a client that stays connected is eventually
\* closed; it is closed by the one step in which the route leaves start(),
\* so once only, and nothing is enqueued on it after that.
C30_StreamClosedOnce ==
    /\ (BackendResponseOver /\ ~clientCancelled) ~> (clientClosed \/ clientCancelled)
    /\ [][ /\ (clientClosed' /\ ~clientClosed) => (routePc # "done" /\ routePc' = "done")
           /\ clientClosed => (clientClosed' /\ clientQueue' = clientQueue)
           /\ routePc = "done" => routePc' = "done"
         ]_vars

\* the backend ended its response after an event, and the stream was closed
C30_Witness ==
    /\ BackendResponseOver /\ ~clientCancelled
    /\ routePc = "done" /\ backendState = "closed"
    /\ Len(sent) >= 1 /\ Len(clientQueue) >= 1
    /\ clientClosed

\* a line of the backend that is an event
IsEventLine(l) == Has(l, "status")
IsJunkLine(l) == ~IsEventLine(l)

\* the error events the route builds itself
IsRouteError(ev) == \E text \in BackendFailureTexts : ev = ErrorUpdate(text)
NotRouteError(ev) == ~IsRouteError(ev)

\* C26: lines of the backend that do not start with `data: ` or do not hold
\* valid JSON give no client event and do not end the relay: a connected
\* client receives the events of the valid lines, in order, all of them once
\* every byte was read; the stream stays open while the route reads, and
\* the only error event of the route's own is the one of a failed read.
C26_BadLinesDropped ==
    (httpStatus = 200 /\ ~clientCancelled)
    => LET valid == SelectSeq(sent, IsEventLine)
           fw == SelectSeq(clientQueue, NotRouteError)
       IN /\ Len(fw) <= Len(valid)
          /\ fw = Transformed(valid, Len(fw))
          /\ (routePc \in {"reading", "done"} /\ wire = << >>) => Len(fw) = Len(valid)
          /\ routePc = "reading" => (~clientClosed /\ fw = clientQueue)
          /\ (routePc = "done" /\ backendState = "closed" /\ sent # << >>)
               => fw = clientQueue

\* an event was forwarded after a line that is not an event
C26_Witness ==
    /\ ~clientCancelled /\ routePc = "reading"
    /\ Len(sent) = 2
    /\ IsJunkLine(sent[1]) /\ IsEventLine(sent[2])
    /\ clientQueue = << Transform(sent[2]) >>

\* the read loop of startMatch has processed a complete or error update:
\* it called reader.cancel()
TerminalProcessed == hookPc \in {"reading", "done"} /\ srvState = "cancelled"

\* C28: once the read loop has processed the first complete or error update
\* of its stream, isStreaming is false, the reader is cancelled and
\* currentUpdate is a terminal update, which no later step of the loop
\* replaces: neither a later line of the same chunk nor a later chunk.
C28_TerminalUpdateStays ==
    /\ [](TerminalProcessed => (IsTerminal(currentUpdate) /\ ~isStreaming))
    /\ [](hookPc = "reading" /\ IsTerminal(currentUpdate) => srvState = "cancelled")
    /\ [][ (hookPc = "reading" /\ IsTerminal(currentUpdate))
            => (currentUpdate' = currentUpdate /\ ~isStreaming') ]_vars

\* the loop has processed an error update and has not yet seen done
C28_Witness ==
    /\ hookPc = "reading" /\ srvState = "cancelled"
    /\ IsTerminal(currentUpdate) /\ currentUpdate.status = "error"
    /\ ~isStreaming

\* a step in which a startMatch run ends in its catch block: the fetch gave
\* no stream, or a read was rejected
HookRunThrows ==
    /\ hookPc' = "done"
    /\ \/ hookPc = "fetching"
       \/ hookPc = "reading" /\ srvState = "failed"

\* C29: a startMatch run that fails (400 or 500 answer, response without
\* body, rejected fetch or read, error event on the stream) has isStreaming
\* false and a non-null error; for a backend error event with its reason in
\* `message`, the error state is that text, carried by the route's event.
C29_HookFailureSetsError ==
    /\ [][ HookRunThrows => (hookError' # Null /\ ~isStreaming') ]_vars
    /\ []( (hookPc \in {"reading", "done"} /\ IsTerminal(currentUpdate)
             /\ currentUpdate.status = "error")
           => (hookError # Null /\ hookError = currentUpdate.error /\ ~isStreaming) )
    /\ []( \A e \in BackendError :
             (hookPc \in {"reading", "done"} /\ currentUpdate = Transform(e))
             => hookError = e.message )

\* the run ended after the error event of a failed download
C29_Witness ==
    /\ hookPc = "done" /\ ~isStreaming
    /\ currentUpdate = Transform(StageError(25))
    /\ hookError = "Download failed"

\* the host is one of the four domains or a subdomain of one
HostIsYouTube(u) ==
    /\ u.host # << >>
    /\ \E d \in validDomains :
          /\ Len(u.host) >= Len(d)
          /\ \A i \in 1..Len(d) :
                ToLowerCase(u.host[Len(u.host) - Len(d) + i]) = d[i]

\* the URL names a video: a non-empty `v`, something after /embed/, or a
\* non-empty path on youtu.be
HasVideoId(u) ==
    \/ u.v \notin {"absent", ""}
    \/ \E i \in 1..(Len(u.path) - 1) : u.path[i] = "embed" /\ u.path[i + 1] # ""
    \/ /\ Len(u.host) >= 2
       /\ u.host[Len(u.host) - 1] = "youtu" /\ u.host[Len(u.host)] = "be"
       /\ u.path # << >> /\ u.path[1] # ""

\* C27: a URL that isValidYouTubeUrl accepts has a YouTube host and names a
\* video by a non-empty video id.
C27_AcceptedUrlHasVideoId ==
    (Has(urlCheck, "url") /\ urlCheck.accepted)
    => (HostIsYouTube(urlCheck.url) /\ HasVideoId(urlCheck.url))

\* C22: the text similarity of two word sets is |A intersect B| over
\* |A union B|; it is the same in both directions, lies between 0 and 1, is
\* 1 for two equal non-empty sets, and is 0, with no division by zero, when
\* both sets are empty.
C22_JaccardProperties ==
    Has(textScore, "ab")
    => LET A == textScore.a
           B == textScore.b
           sim == textScore.ab
       IN /\ sim = textScore.ba
          /\ sim.den > 0
          /\ 0 <= sim.num /\ sim.num <= sim.den
          /\ (A \cup B # {})
               => sim.num * Cardinality(A \cup B) = Cardinality(A \cap B) * sim.den
          /\ (A = B /\ A # {}) => sim.num = sim.den
          /\ (A = {} /\ B = {}) => sim.num = 0

\* two different sets that share one word of four were compared
C22_Witness ==
    /\ Has(textScore, "ab")
    /\ textScore.a = {"today", "maybe"} /\ textScore.b = {"maybe", "wonderwall", "save"}
    /\ textScore.ab = [num |-> 1, den |-> 4]

\* C23: audioSim is 0.30 chroma_stft + 0.35 chroma_cqt + 0.25 tonnetz + 0.10
\* spectral_contrast and combinedScore is 0.30 audioSim + 0.70 lyricsSim;
\* each set of weights sums to 1, and for inputs between 0 and 1 both
\* scores lie between 0 and 1.
C23_FusionWeights ==
    /\ 30 + 35 + 25 + 10 = 100
    /\ 30 + 70 = 100
    /\ Has(fused, "channels")
         => LET c == fused.channels
            IN /\ fused.audioSim = 30 * c.chroma_stft + 35 * c.chroma_cqt
                                   + 25 * c.tonnetz + 10 * c.spectral_contrast
               /\ fused.combinedScore * 100
                    = 30 * (fused.audioSim * 100) + 70 * (fused.lyricsSim * 10000)
               /\ 0 <= fused.audioSim /\ fused.audioSim <= 10000
               /\ 0 <= fused.combinedScore /\ fused.combinedScore <= 1000000

\* audioSim 0.5 and lyricsSim 0.6 were fused into 0.57
C23_Witness ==
    /\ Has(fused, "channels")
    /\ fused.audioSim = 5000 /\ fused.lyricsSim = 60
    /\ fused.combinedScore = 570000

\* C21: the ranking is the one order of the library by combinedScore
\* descending with pairs of equal score in library order; top5 is its first
\* five pairs, or all of them for fewer than five; and for two tracks or
\* more gap is the score of rank 1 minus the score of rank 2, which is not
\* negative.
C21_RankingDeterministic ==
    Has(ranking, "order")
    => LET lib == ranking.library
           order == ranking.order
           n == Len(lib)
       IN /\ Len(order) = n
          /\ \A t \in 1..n : \E i \in 1..n : order[i] = Pair(t, lib[t])
          /\ \A i, j \in 1..n :
                i < j => \/ order[i].combinedScore > order[j].combinedScore
                         \/ /\ order[i].combinedScore = order[j].combinedScore
                            /\ order[i].track < order[j].track
          /\ Len(ranking.top5) = (IF n < 5 THEN n ELSE 5)
          /\ \A i \in 1..Len(ranking.top5) : ranking.top5[i] = order[i]
          /\ n >= 2 => /\ Has(ranking, "gap")
                       /\ ranking.gap = order[1].combinedScore - order[2].combinedScore
                       /\ ranking.gap >= 0

\* a library of six tracks with ties was ranked: the second track wins with
\* gap 0.25, and the tracks of equal score follow in library order
C21_Witness ==
    /\ Has(ranking, "order")
    /\ ranking.library = <<55, 80, 55, 55, 55, 55>>
    /\ ranking.order[1] = Pair(2, 80) /\ ranking.order[2] = Pair(1, 55)
    /\ Len(ranking.top5) = 5 /\ ranking.top5[5] = Pair(5, 55)
    /\ ranking.gap = 25

\* C31: once the route has read the backend response to its end and left
\* start(), with the client still connected, every `data: ` event the backend
\* wrote before it closed the response was forwarded to the client, in
\* order, a last line without a newline after it included.
C31_ReceivedEventsForwarded ==
    ( /\ routePc = "done"
      /\ backendState = "closed"
      /\ sent # << >>
      /\ ~clientCancelled )
    => clientQueue = Transformed(sent, Len(sent))

\* C32: only the startMatch call started last changes the state of the hook:
\* a step of an older call (its fetch settling, a chunk read, the end or the
\* failure of its stream) leaves currentUpdate, error and isStreaming as they
\* are, so it never sets isStreaming to false under the newer call.
C32_OnlyLatestRunUpdates ==
    [][ \A r \in DOMAIN runs :
           (r # LatestRun /\ runs'[r] # runs[r])
           => UNCHANGED <<currentUpdate, hookError, isStreaming>> ]_vars

\* C33: a URL with which handleAnalyze issues its request, that is, one
\* validateYouTubeUrl has accepted, is accepted by isValidYouTubeUrl of the
\* route as well, so the request is not answered with 400 and
\* 'Invalid YouTube URL format'.
C33_PageUrlAcceptedByRoute ==
    pagePc = "fetching"
    => /\ validateYouTubeUrl(youtubeUrl)
       /\ isValidYouTubeUrl(youtubeUrl)
       /\ PostAnswer([json |-> TRUE, youtubeUrl |-> youtubeUrl]).status # 400

\* a fetchSongs call is waiting for its answer
FetchInFlight == \E f \in DOMAIN fetches : fetches[f].state = "fetching"

\* C34: while a fetchSongs call is in flight loading is true, also when
\* refetch was called before an earlier fetch has finished.
C34_LoadingWhileFetching == FetchInFlight => loading

\* C35: when no fetchSongs call is in flight, the state is the outcome of
\* the call started last: error is non-null exactly when that call failed,
\* songs is then empty, and otherwise songs is the list that call received.
C35_StateOfLatestFetch ==
    (fetches # << >> /\ ~FetchInFlight)
    => LET last == fetches[LatestFetch]
       IN /\ (songsError # Null) <=> (last.state = "failed")
          /\ songsError # Null => songs = << >>
          /\ last.state = "loaded" => songs = last.songs

====
